---- MODULE Spec2Model ----
(***************************************************************************)
(* Model of upup/pkg/fi/cloudup/dns.go: findZone, validateDNS,             *)
(* precreateDNS and buildPrecreateDNSHostnames.                            *)
(*                                                                         *)
(* Go strings are TLA+ strings; strings.TrimSuffix and "+" are modelled    *)
(* by what they do on the characters.  The DNS provider, the public        *)
(* resolver, the feature flag and the process environment are the          *)
(* environment: each call to them is one step whose outcome is chosen      *)
(* nondeterministically and appended to the per-invocation log "calls".    *)
(***************************************************************************)
EXTENDS Integers, Sequences, FiniteSets, TLC

VARIABLES
  cluster,       \* *api.Cluster (read-only input)
  zones,         \* what zonesProvider.List() returns: sequence of [id, name]
  rrsets,        \* rrsets[i]: the resource record sets of zone i, in order
  runs,          \* number of invocations started so far
  op,            \* function being executed: "none", "validateDNS", "precreateDNS"
  pc,            \* position inside the function
  flag,          \* featureflag.DNSPreCreate.Enabled() for this invocation
  getenv,        \* os.Getenv("DNS_IGNORE_NS_CHECK") for this invocation
  calls,         \* log of the calls made by this invocation: <<call, outcome>>
  zone,          \* index of the zone returned by findZone, 0 = nil
  result,        \* "none" while running, "ok" for a nil error, else the error
  dnsHostnames,  \* precreateDNS: dnsHostnames
  records,       \* precreateDNS: records (what rrs.List() returned)
  changeset,     \* precreateDNS: changeset
  created,       \* precreateDNS: created
  rrsetsBefore,  \* history: rrsets when this invocation started
  okBefore       \* history: an earlier precreateDNS with the flag on returned nil

vars == <<cluster, zones, rrsets, runs, op, pc, flag, getenv, calls, zone,
          result, dnsHostnames, records, changeset, created, rrsetsBefore,
          okBefore>>

(***************************************************************************)
(* Bounds and program constants                                            *)
(***************************************************************************)
MaxRuns == 2

PlaceholderIP == "203.0.113.123"

PlaceholderTTL == 10

(***************************************************************************)
(* Helpers                                                                 *)
(***************************************************************************)
Range(s) == {s[i] : i \in DOMAIN s}

\* number of log entries for one call
Count(call) == Cardinality({i \in DOMAIN calls : calls[i][1] = call})

Called(call, outcome) == \E i \in DOMAIN calls : calls[i] = <<call, outcome>>

\* strings.TrimSuffix(s, suffix)
TrimSuffix(s, suffix) ==
  IF Len(s) >= Len(suffix) /\ SubSeq(s, Len(s) - Len(suffix) + 1, Len(s)) = suffix
  THEN SubSeq(s, 1, Len(s) - Len(suffix))
  ELSE s

(***************************************************************************)
(* findZone: the matching loop and the decision on the matches             *)
(***************************************************************************)
\* mutant: the ID is compared with the normalized target
ZoneMatches_IdNormalized(z, DNSZone) ==
  LET findName == TrimSuffix(DNSZone, ".")
      id       == z.id
      name     == TrimSuffix(z.name, ".")
  IN  id = findName \/ name = findName

\* the condition of the loop body
ZoneMatches(z, DNSZone) ==
  LET findName == TrimSuffix(DNSZone, ".")
      id       == z.id
      name     == TrimSuffix(z.name, ".")
  IN  id = DNSZone \/ name = findName

\* mutant: a zone is appended once for each reason it matches
RECURSIVE FindMatches_PerReason(_, _, _)
FindMatches_PerReason(zs, DNSZone, i) ==
  IF i > Len(zs) THEN <<>>
  ELSE (IF zs[i].id = DNSZone THEN <<i>> ELSE <<>>)
       \o (IF TrimSuffix(zs[i].name, ".") = TrimSuffix(DNSZone, ".")
           THEN <<i>> ELSE <<>>)
       \o FindMatches_PerReason(zs, DNSZone, i + 1)

\* the loop: indices of the matching zones, in list order
RECURSIVE FindMatches(_, _, _)
FindMatches(zs, DNSZone, i) ==
  IF i > Len(zs) THEN <<>>
  ELSE (IF ZoneMatches(zs[i], DNSZone) THEN <<i>> ELSE <<>>)
       \o FindMatches(zs, DNSZone, i + 1)

\* mutant: several matches are resolved to the first one
MatchResult_FirstOfMany(matches) ==
  IF Len(matches) = 0 THEN [zone |-> 0, err |-> "ZoneNotFound"]
  ELSE [zone |-> matches[1], err |-> "ok"]

\* the decision after the loop
MatchResult(matches) ==
  IF Len(matches) = 0 THEN [zone |-> 0, err |-> "ZoneNotFound"]
  ELSE IF Len(matches) > 1 THEN [zone |-> 0, err |-> "AmbiguousZone"]
  ELSE [zone |-> matches[1], err |-> "ok"]

(***************************************************************************)
(* validateDNS                                                             *)
(***************************************************************************)
\* the value kopsModelContext.UsePrivateDNS() returns for the cluster
UsePrivateDNS(c) == c.UsePrivateDNS

\* mutant: the private-DNS short circuit is missing
validateDNSEntry_NoShortCircuit(c) == "findZone_DNS"

\* where validateDNS goes after its first check
validateDNSEntry(c) == IF UsePrivateDNS(c) THEN "return" ELSE "findZone_DNS"

\* mutant: the override demotes every NS failure
NSCheck_OverrideAll(ns, env) ==
  IF env = "" THEN (IF ns = "some" THEN "ok"
                    ELSE IF ns = "err" THEN "NSLookupFailed" ELSE "NoNSRecords")
  ELSE "ok"

\* mutant: the override test is inverted
NSCheck_Inverted(ns, env) ==
  IF ns = "err" THEN "NSLookupFailed"
  ELSE IF ns = "empty" THEN (IF env # "" THEN "NoNSRecords" ELSE "ok")
  ELSE "ok"

\* what validateDNS returns after net.LookupNS: ns is "err", "empty", "some"
NSCheck(ns, env) ==
  IF ns = "err" THEN "NSLookupFailed"
  ELSE IF ns = "empty" THEN (IF env = "" THEN "NoNSRecords" ELSE "ok")
  ELSE "ok"

(***************************************************************************)
(* buildPrecreateDNSHostnames                                              *)
(***************************************************************************)
\* mutant: the cluster named main gets no special case
EtcdPrefix_NoSpecialCase(etcdCluster) == "etcd-" \o etcdCluster.Name

\* mutant: the cluster name is left out of every prefix
EtcdPrefix_AlwaysEtcd(etcdCluster) == "etcd"

\* etcClusterName
EtcdPrefix(etcdCluster) ==
  IF etcdCluster.Name = "main" THEN "etcd" ELSE "etcd-" \o etcdCluster.Name

RECURSIVE EtcdMemberNames(_, _, _)
EtcdMemberNames(etcdCluster, dnsInternalSuffix, i) ==
  IF i > Len(etcdCluster.Members) THEN <<>>
  ELSE <<EtcdPrefix(etcdCluster) \o "-" \o etcdCluster.Members[i].Name
           \o dnsInternalSuffix>>
       \o EtcdMemberNames(etcdCluster, dnsInternalSuffix, i + 1)

RECURSIVE EtcdNames(_, _, _)
EtcdNames(etcdClusters, dnsInternalSuffix, i) ==
  IF i > Len(etcdClusters) THEN <<>>
  ELSE EtcdMemberNames(etcdClusters[i], dnsInternalSuffix, 1)
       \o EtcdNames(etcdClusters, dnsInternalSuffix, i + 1)

buildPrecreateDNSHostnames(c) ==
  LET dnsInternalSuffix == ".internal." \o c.Name
  IN  (IF c.MasterPublicName # "" THEN <<c.MasterPublicName>> ELSE <<>>)
      \o (IF c.MasterInternalName # "" THEN <<c.MasterInternalName>> ELSE <<>>)
      \o EtcdNames(c.EtcdClusters, dnsInternalSuffix, 1)

(***************************************************************************)
(* precreateDNS: the records map and the diff loop                         *)
(***************************************************************************)
\* rrs.New(name, rrdatas, ttl, rrstype)
New(name, rrdatas, ttl, rrstype) ==
  [type |-> rrstype, name |-> name, rrdatas |-> rrdatas, ttl |-> ttl]

\* mutant: the key is built from the listed name as it is
RecordKey_Raw(record) == record.type \o "::" \o record.name

\* mutant: the type of the record is left out of the key
RecordKey_IgnoreType(record) ==
  LET name == TrimSuffix(record.name, ".")
  IN  "A::" \o name

\* key of a listed record in recordsMap
RecordKey(record) ==
  LET name == TrimSuffix(record.name, ".")
  IN  record.type \o "::" \o name

\* recordsMap after the first n records were stored (a later record wins)
RECURSIVE BuildRecordsMap(_, _)
BuildRecordsMap(recs, n) ==
  IF n = 0 THEN <<>>
  ELSE LET m   == BuildRecordsMap(recs, n - 1)
           key == RecordKey(recs[n])
       IN  [k \in DOMAIN m \cup {key} |-> IF k = key THEN recs[n] ELSE m[k]]

\* recordsMap[key]: <<record>>, or <<>> for nil
Lookup(recordsMap, key) ==
  IF key \in DOMAIN recordsMap THEN <<recordsMap[key]>> ELSE <<>>

\* mutant: a record without data is treated as missing
RecordFound_AliasMissing(dnsRecord) ==
  IF dnsRecord # <<>>
  THEN (IF Len(dnsRecord[1].rrdatas) > 0 THEN TRUE ELSE FALSE)
  ELSE FALSE

\* mutant: a record with data is treated as missing
RecordFound_DataMissing(dnsRecord) ==
  IF dnsRecord # <<>>
  THEN (IF Len(dnsRecord[1].rrdatas) > 0 THEN FALSE ELSE TRUE)
  ELSE FALSE

\* the value of found for one hostname
RecordFound(dnsRecord) ==
  IF dnsRecord # <<>>
  THEN (IF Len(dnsRecord[1].rrdatas) > 0 THEN TRUE ELSE TRUE)
  ELSE FALSE

\* the loop over dnsHostnames: the records handed to changeset.Add, in order
RECURSIVE DiffLoop(_, _, _)
DiffLoop(hostnames, recordsMap, i) ==
  IF i > Len(hostnames) THEN <<>>
  ELSE LET dnsHostname == TrimSuffix(hostnames[i], ".")
           dnsRecord   == Lookup(recordsMap, "A::" \o dnsHostname)
       IN  (IF RecordFound(dnsRecord) THEN <<>>
            ELSE <<New(dnsHostname, <<PlaceholderIP>>, PlaceholderTTL, "A")>>)
           \o DiffLoop(hostnames, recordsMap, i + 1)

\* mutant: Apply is called whatever was queued
ShouldApply_Always(cr) == TRUE

\* mutant: Apply is never called
ShouldApply_Never(cr) == FALSE

\* the test guarding changeset.Apply()
ShouldApply(cr) == Len(cr) # 0

(***************************************************************************)
(* The DNS provider.  changeset.Apply() is one atomic write: it either     *)
(* fails and leaves the zone as it was, or stores the whole changeset; it  *)
(* cannot succeed when that would give a zone two record sets with the     *)
(* same type and name.                                                     *)
(***************************************************************************)
EmptyChangeset == [additions |-> <<>>, removals |-> <<>>]

\* a listing shows a name as stored or as a fully qualified name
ListedName(name, fqdn) ==
  IF fqdn /\ TrimSuffix(name, ".") = name THEN name \o "." ELSE name

Listing(recs, fqdn) ==
  [i \in DOMAIN recs |-> [recs[i] EXCEPT !.name = ListedName(recs[i].name, fqdn)]]

\* a zone holds one record set per type and name
ProviderKey(r) == <<r.type, TrimSuffix(r.name, ".")>>

UniqueKeys(recs) ==
  \A i, j \in DOMAIN recs : ProviderKey(recs[i]) = ProviderKey(recs[j]) => i = j

\* the provider accepts a changeset that keeps the record sets unique
Applied(recs, cs) ==
  SelectSeq(recs, LAMBDA r : r \notin Range(cs.removals)) \o cs.additions

CanApply(recs, cs) == UniqueKeys(Applied(recs, cs))

(***************************************************************************)
(* Inputs.  Zone names, record names and hostnames are DNS names written   *)
(* with or without the one trailing dot of a fully qualified name; a zone  *)
(* ID may coincide with the name of another zone.                          *)
(***************************************************************************)
ZoneLists ==
  { <<>>,
    << [id |-> "Z1", name |-> "foo."], [id |-> "Z2", name |-> "bar."] >>,
    << [id |-> "Z1", name |-> "foo."], [id |-> "Z2", name |-> "foo"] >>,
    << [id |-> "foo", name |-> "bar."], [id |-> "Z2", name |-> "foo."] >>,
    << [id |-> "foo", name |-> "foo."] >> }

DNSZoneValues == {"foo", "foo.", "Z1", "baz"}

MasterPublicNames == {"", "api.foo", "api.internal.foo."}

MasterInternalNames == {"", "api.internal.foo"}

EtcdClusterLists ==
  { <<>>,
    << [Name |-> "main",   Members |-> <<>>] >>,
    << [Name |-> "main",   Members |-> <<[Name |-> "a"]>>],
       [Name |-> "events", Members |-> <<[Name |-> "a"], [Name |-> "b"]>>] >>,
    << [Name |-> "main",   Members |-> <<[Name |-> "events-b"]>>],
       [Name |-> "events", Members |-> <<[Name |-> "b"]>>] >> }

Clusters ==
  [Name : {"foo"}, DNSZone : DNSZoneValues,
   MasterPublicName : MasterPublicNames,
   MasterInternalName : MasterInternalNames,
   EtcdClusters : EtcdClusterLists, UsePrivateDNS : BOOLEAN]

InitialRecords ==
  { <<>>,
    << New("api.foo.", <<"198.51.100.7">>, 60, "A") >>,
    << New("api.internal.foo", <<>>, 0, "A") >>,
    << New("api.foo.", <<"lb.foo.">>, 60, "CNAME"),
       New("etcd-a.internal.foo.", <<"198.51.100.8">>, 60, "A") >> }

EnvValues == {"", "1", "false"}

(***************************************************************************)
(* Initial state                                                           *)
(***************************************************************************)
Init ==
  /\ cluster \in Clusters
  /\ zones \in ZoneLists
  /\ \E recs \in InitialRecords : rrsets = [i \in DOMAIN zones |-> recs]
  /\ runs = 0
  /\ op = "none"
  /\ pc = "idle"
  /\ flag = FALSE
  /\ getenv = ""
  /\ calls = <<>>
  /\ zone = 0
  /\ result = "none"
  /\ dnsHostnames = <<>>
  /\ records = <<>>
  /\ changeset = EmptyChangeset
  /\ created = <<>>
  /\ rrsetsBefore = rrsets
  /\ okBefore = FALSE

(***************************************************************************)
(* Steps                                                                   *)
(***************************************************************************)
Return(r) == result' = r /\ pc' = "done"

Call(call, outcome) == calls' = Append(calls, <<call, outcome>>)

\* a new invocation starts with fresh locals
Enter(f) ==
  /\ pc \in {"idle", "done"}
  /\ runs < MaxRuns
  /\ runs' = runs + 1
  /\ op' = f
  /\ calls' = <<>>
  /\ zone' = 0
  /\ records' = <<>>
  /\ changeset' = EmptyChangeset
  /\ created' = <<>>
  /\ rrsetsBefore' = rrsets
  /\ okBefore' = (okBefore \/ (op = "precreateDNS" /\ flag /\ result = "ok"))
  /\ UNCHANGED <<cluster, zones, rrsets>>

validateDNS_Begin ==
  /\ Enter("validateDNS")
  /\ getenv' \in EnvValues
  /\ dnsHostnames' = <<>>
  /\ IF validateDNSEntry(cluster) = "return"
     THEN Return("ok")
     ELSE pc' = "findZone_DNS" /\ result' = "none"
  /\ UNCHANGED flag

\* mutant: the feature flag is not consulted
precreateDNSEntry_NoGate(enabled, c) ==
  LET hostnames == buildPrecreateDNSHostnames(c)
  IN  [next |-> IF Len(hostnames) = 0 THEN "return" ELSE "findZone_DNS",
       dnsHostnames |-> hostnames]

\* mutant: an empty hostname list does not return early
precreateDNSEntry_NoEmptyCheck(enabled, c) ==
  IF ~enabled THEN [next |-> "return", dnsHostnames |-> <<>>]
  ELSE [next |-> "findZone_DNS",
        dnsHostnames |-> buildPrecreateDNSHostnames(c)]

\* precreateDNS up to its two early returns
precreateDNSEntry(enabled, c) ==
  IF ~enabled THEN [next |-> "return", dnsHostnames |-> <<>>]
  ELSE LET hostnames == buildPrecreateDNSHostnames(c)
       IN  [next |-> IF Len(hostnames) = 0 THEN "return" ELSE "findZone_DNS",
            dnsHostnames |-> hostnames]

precreateDNS_Begin ==
  /\ Enter("precreateDNS")
  /\ flag' \in BOOLEAN
  /\ LET e == precreateDNSEntry(flag', cluster)
     IN  /\ dnsHostnames' = e.dnsHostnames
         /\ IF e.next = "return"
            THEN Return("ok")
            ELSE pc' = "findZone_DNS" /\ result' = "none"
  /\ UNCHANGED getenv

findZone_DNS ==
  /\ pc = "findZone_DNS"
  /\ \E o \in {"ok", "err"} :
       /\ Call("cloud.DNS", o)
       /\ IF o = "err" THEN Return("ProviderUnavailable")
          ELSE pc' = "findZone_Zones" /\ UNCHANGED result
  /\ UNCHANGED <<cluster, zones, rrsets, runs, op, flag, getenv, zone,
                 dnsHostnames, records, changeset, created, rrsetsBefore,
                 okBefore>>

findZone_Zones ==
  /\ pc = "findZone_Zones"
  /\ \E o \in {"ok", "notok"} :
       /\ Call("dns.Zones", o)
       /\ IF o = "notok" THEN Return("ZonesUnavailable")
          ELSE pc' = "findZone_List" /\ UNCHANGED result
  /\ UNCHANGED <<cluster, zones, rrsets, runs, op, flag, getenv, zone,
                 dnsHostnames, records, changeset, created, rrsetsBefore,
                 okBefore>>

findZone_List ==
  /\ pc = "findZone_List"
  /\ \E o \in {"ok", "err"} :
       /\ Call("zonesProvider.List", o)
       /\ IF o = "err" THEN Return("ZoneLookupFailed") /\ UNCHANGED zone
          ELSE LET m == MatchResult(FindMatches(zones, cluster.DNSZone, 1))
               IN  IF m.err # "ok" THEN Return(m.err) /\ UNCHANGED zone
                   ELSE /\ zone' = m.zone
                        /\ pc' = IF op = "validateDNS"
                                 THEN "validateDNS_LookupNS"
                                 ELSE "precreateDNS_RRS"
                        /\ UNCHANGED result
  /\ UNCHANGED <<cluster, zones, rrsets, runs, op, flag, getenv,
                 dnsHostnames, records, changeset, created, rrsetsBefore,
                 okBefore>>

validateDNS_LookupNS ==
  /\ pc = "validateDNS_LookupNS"
  /\ \E ns \in {"err", "empty", "some"} :
       /\ Call("net.LookupNS", ns)
       /\ Return(NSCheck(ns, getenv))
  /\ UNCHANGED <<cluster, zones, rrsets, runs, op, flag, getenv, zone,
                 dnsHostnames, records, changeset, created, rrsetsBefore,
                 okBefore>>

precreateDNS_ResourceRecordSets ==
  /\ pc = "precreateDNS_RRS"
  /\ \E o \in {"ok", "notok"} :
       /\ Call("zone.ResourceRecordSets", o)
       /\ IF o = "notok" THEN Return("RecordSetsUnavailable")
          ELSE pc' = "precreateDNS_List" /\ UNCHANGED result
  /\ UNCHANGED <<cluster, zones, rrsets, runs, op, flag, getenv, zone,
                 dnsHostnames, records, changeset, created, rrsetsBefore,
                 okBefore>>

precreateDNS_List ==
  /\ pc = "precreateDNS_List"
  /\ \E o \in {"ok", "err"} :
       /\ Call("rrs.List", o)
       /\ IF o = "err" THEN Return("RecordListFailed") /\ UNCHANGED records
          ELSE /\ \E fqdn \in BOOLEAN : records' = Listing(rrsets[zone], fqdn)
               /\ pc' = "precreateDNS_Diff"
               /\ UNCHANGED result
  /\ UNCHANGED <<cluster, zones, rrsets, runs, op, flag, getenv, zone,
                 dnsHostnames, changeset, created, rrsetsBefore, okBefore>>

precreateDNS_Diff ==
  /\ pc = "precreateDNS_Diff"
  /\ Call("rrs.StartChangeset", "ok")
  /\ LET recordsMap == BuildRecordsMap(records, Len(records))
         adds       == DiffLoop(dnsHostnames, recordsMap, 1)
     IN  /\ changeset' = [additions |-> adds, removals |-> <<>>]
         /\ created' = [i \in DOMAIN adds |-> adds[i].name]
  /\ IF ShouldApply(created')
     THEN pc' = "precreateDNS_Apply" /\ UNCHANGED result
     ELSE Return("ok")
  /\ UNCHANGED <<cluster, zones, rrsets, runs, op, flag, getenv, zone,
                 dnsHostnames, records, rrsetsBefore, okBefore>>

\* mutant: the error of changeset.Apply() is dropped
ApplyResult_Swallowed(o) == "ok"

\* what precreateDNS returns after changeset.Apply()
ApplyResult(o) == IF o = "err" THEN "ChangesetApplyFailed" ELSE "ok"

precreateDNS_Apply ==
  /\ pc = "precreateDNS_Apply"
  /\ \E o \in {"ok", "err"} :
       /\ o = "ok" => CanApply(rrsets[zone], changeset)
       /\ Call("changeset.Apply", o)
       /\ IF o = "ok"
          THEN rrsets' = [rrsets EXCEPT ![zone] = Applied(@, changeset)]
          ELSE UNCHANGED rrsets
       /\ Return(ApplyResult(o))
  /\ UNCHANGED <<cluster, zones, runs, op, flag, getenv, zone, dnsHostnames,
                 records, changeset, created, rrsetsBefore, okBefore>>

Next ==
  \/ validateDNS_Begin
  \/ precreateDNS_Begin
  \/ findZone_DNS
  \/ findZone_Zones
  \/ findZone_List
  \/ validateDNS_LookupNS
  \/ precreateDNS_ResourceRecordSets
  \/ precreateDNS_List
  \/ precreateDNS_Diff
  \/ precreateDNS_Apply

Spec == Init /\ [][Next]_vars

(***************************************************************************)
(* Sanity                                                                  *)
(***************************************************************************)
Results ==
  {"none", "ok", "ProviderUnavailable", "ZonesUnavailable", "ZoneLookupFailed",
   "ZoneNotFound", "AmbiguousZone", "NSLookupFailed", "NoNSRecords",
   "RecordSetsUnavailable", "RecordListFailed", "ChangesetApplyFailed"}

TypeOK ==
  /\ cluster \in Clusters
  /\ zones \in ZoneLists
  /\ DOMAIN rrsets = DOMAIN zones
  /\ \A i \in DOMAIN rrsets : UniqueKeys(rrsets[i])
  /\ runs \in 0..MaxRuns
  /\ op \in {"none", "validateDNS", "precreateDNS"}
  /\ flag \in BOOLEAN
  /\ getenv \in EnvValues
  /\ zone \in 0..Len(zones)
  /\ result \in Results
  /\ (pc = "done") = (result # "none")

(***************************************************************************)
(* Properties                                                              *)
(***************************************************************************)
\* the zones the target designates: by raw ID, or by name up to one
\* trailing dot
MatchSet ==
  {i \in DOMAIN zones :
     \/ zones[i].id = cluster.DNSZone
     \/ TrimSuffix(zones[i].name, ".") = TrimSuffix(cluster.DNSZone, ".")}

\* C1: once the zone list was obtained, findZone fails with the
\* zone-not-found error when no zone is in MatchSet, with the ambiguous-zone
\* error when two or more are, and returns the one zone of MatchSet otherwise.
C1_FindZoneByMatchCount ==
  Called("zonesProvider.List", "ok") =>
    /\ Cardinality(MatchSet) = 0 => (result = "ZoneNotFound" /\ zone = 0)
    /\ Cardinality(MatchSet) >= 2 => (result = "AmbiguousZone" /\ zone = 0)
    /\ Cardinality(MatchSet) = 1 =>
         (zone \in MatchSet /\ result \notin {"ZoneNotFound", "AmbiguousZone"})

\* C1 witness: one zone matched by its name only, while another zone's ID
\* equals the target without its trailing dot.
C1_Witness ==
  /\ Called("zonesProvider.List", "ok")
  /\ Cardinality(MatchSet) = 1
  /\ zone \in MatchSet
  /\ zones[zone].id # cluster.DNSZone
  /\ \E j \in DOMAIN zones : j # zone /\ zones[j].id = TrimSuffix(cluster.DNSZone, ".")

\* C2: after a precreateDNS with the flag on returned nil, a further
\* precreateDNS with the flag on never invokes changeset.Apply and leaves the
\* record sets as they were; and a successful run on an empty zone that
\* reached the diff applied its changeset and left records in the zone.
C2_Idempotent ==
  /\ (op = "precreateDNS" /\ flag /\ okBefore) =>
       (Count("changeset.Apply") = 0 /\ rrsets = rrsetsBefore)
  /\ (op = "precreateDNS" /\ flag /\ pc = "done" /\ result = "ok" /\ zone # 0
        /\ rrsetsBefore[zone] = <<>>) =>
       (Called("changeset.Apply", "ok") /\ rrsets[zone] # <<>>)

\* C2 witness: a second run finished the diff over the placeholder records
\* a first run created in an empty zone.
C2_Witness ==
  /\ op = "precreateDNS" /\ flag /\ okBefore
  /\ pc = "done" /\ result = "ok"
  /\ Called("rrs.StartChangeset", "ok")
  /\ records # <<>>
  /\ \A r \in Range(records) : r.rrdatas = <<PlaceholderIP>>

\* C3: a listed A record without data is never matched by an addition of the
\* changeset, and a record without data that was in a zone when the
\* invocation started is still there.
C3_AliasPreserved ==
  /\ \A r \in Range(records) :
       (r.type = "A" /\ r.rrdatas = <<>>) =>
         \A a \in Range(changeset.additions) :
           a.name # TrimSuffix(r.name, ".")
  /\ \A i \in DOMAIN rrsetsBefore : \A r \in Range(rrsetsBefore[i]) :
       r.rrdatas = <<>> => r \in Range(rrsets[i])

\* C3 witness: a run applied a changeset although a desired hostname named a
\* listed record without data.
C3_Witness ==
  /\ op = "precreateDNS" /\ pc = "done"
  /\ Called("changeset.Apply", "ok")
  /\ \E r \in Range(records) : \E k \in DOMAIN dnsHostnames :
       /\ r.type = "A" /\ r.rrdatas = <<>>
       /\ TrimSuffix(dnsHostnames[k], ".") = TrimSuffix(r.name, ".")

\* C4: every record set a zone held when the invocation started is still in
\* it unchanged, the changeset holds additions only, and no addition names a
\* listed A record that has data.
C4_OnlyAdds ==
  /\ \A i \in DOMAIN rrsetsBefore : \A r \in Range(rrsetsBefore[i]) :
       r \in Range(rrsets[i])
  /\ changeset.removals = <<>>
  /\ \A r \in Range(records) :
       (r.type = "A" /\ Len(r.rrdatas) >= 1) =>
         \A a \in Range(changeset.additions) :
           a.name # TrimSuffix(r.name, ".")

\* C4 witness: a changeset was applied to a zone that already held an A
\* record with data for one of the desired hostnames.
C4_Witness ==
  /\ op = "precreateDNS" /\ pc = "done"
  /\ Called("changeset.Apply", "ok")
  /\ \E r \in Range(rrsetsBefore[zone]) : \E k \in DOMAIN dnsHostnames :
       /\ r.type = "A" /\ Len(r.rrdatas) >= 1
       /\ TrimSuffix(dnsHostnames[k], ".") = TrimSuffix(r.name, ".")

\* C5: the changeset never holds two additions with the same type and name.
C5_NoDuplicateAdds ==
  \A i, j \in DOMAIN changeset.additions :
    (/\ changeset.additions[i].type = changeset.additions[j].type
     /\ changeset.additions[i].name = changeset.additions[j].name) => i = j

\* C6: when the NS lookup returned no records, validateDNS fails with the
\* no-NS-records error if DNS_IGNORE_NS_CHECK is empty and returns nil if
\* it is set.
C6_NSOverride ==
  (op = "validateDNS" /\ Called("net.LookupNS", "empty")) =>
    /\ getenv = "" => result = "NoNSRecords"
    /\ getenv # "" => result = "ok"

\* C6 witness: an empty NS answer for a resolved public zone was ignored
\* because the override is set.
C6_Witness ==
  /\ op = "validateDNS" /\ ~UsePrivateDNS(cluster) /\ zone # 0
  /\ Called("net.LookupNS", "empty")
  /\ getenv # "" /\ result = "ok"

\* C7: a failure to resolve the zone or an NS lookup error makes validateDNS
\* return that error, whatever DNS_IGNORE_NS_CHECK holds.
C7_OtherErrorsFatal ==
  op = "validateDNS" =>
    /\ Called("cloud.DNS", "err") => result = "ProviderUnavailable"
    /\ Called("dns.Zones", "notok") => result = "ZonesUnavailable"
    /\ Called("zonesProvider.List", "err") => result = "ZoneLookupFailed"
    /\ (Called("zonesProvider.List", "ok") /\ Cardinality(MatchSet) = 0) =>
         result = "ZoneNotFound"
    /\ (Called("zonesProvider.List", "ok") /\ Cardinality(MatchSet) > 1) =>
         result = "AmbiguousZone"
    /\ Called("net.LookupNS", "err") => result = "NSLookupFailed"

\* C7 witness: the NS lookup failed while the override is set.
C7_Witness ==
  /\ op = "validateDNS" /\ getenv # ""
  /\ Called("net.LookupNS", "err")
  /\ result = "NSLookupFailed"

\* C8: with private DNS, validateDNS has returned nil and has made no call
\* to the provider or to the resolver.
C8_PrivateShortCircuit ==
  (op = "validateDNS" /\ UsePrivateDNS(cluster)) =>
    (pc = "done" /\ result = "ok" /\ calls = <<>>)

\* C8 witness: a private-DNS cluster validated although no zone matches its
\* target and the override is set.
C8_Witness ==
  /\ op = "validateDNS" /\ UsePrivateDNS(cluster)
  /\ pc = "done" /\ result = "ok"
  /\ MatchSet = {} /\ getenv # ""

\* C9: with the feature flag off, precreateDNS has returned nil, has made no
\* call, has no changeset and has left every zone as it was.
C9_FlagGate ==
  (op = "precreateDNS" /\ ~flag) =>
    /\ pc = "done" /\ result = "ok"
    /\ calls = <<>>
    /\ changeset = EmptyChangeset
    /\ rrsets = rrsetsBefore

\* C9 witness: the flag was off for a cluster with hostnames to create in a
\* zone that resolves.
C9_Witness ==
  /\ op = "precreateDNS" /\ ~flag /\ pc = "done"
  /\ buildPrecreateDNSHostnames(cluster) # <<>>
  /\ Cardinality(MatchSet) = 1

\* C10: an invocation of precreateDNS calls changeset.Apply at most once;
\* once it has returned after the diff, it called Apply exactly once if
\* records were queued, and not at all, returning nil, if none were.
C10_SingleConditionalApply ==
  op = "precreateDNS" =>
    /\ Count("changeset.Apply") <= 1
    /\ (pc = "done" /\ Called("rrs.StartChangeset", "ok")) =>
         /\ Len(changeset.additions) >= 1 => Count("changeset.Apply") = 1
         /\ Len(changeset.additions) = 0 =>
              (Count("changeset.Apply") = 0 /\ result = "ok")

\* C10 witness: every desired hostname had an A record, nothing was queued
\* and the run returned nil without Apply.
C10_Witness ==
  /\ op = "precreateDNS" /\ pc = "done" /\ result = "ok"
  /\ Called("rrs.StartChangeset", "ok")
  /\ changeset.additions = <<>>
  /\ Count("changeset.Apply") = 0

\* C11: when changeset.Apply failed, precreateDNS returns the apply error,
\* every zone is as it was when the invocation started, no queued record has
\* a record set of its type and name in the zone, and Apply was called once.
C11_ApplyFailure ==
  (op = "precreateDNS" /\ Called("changeset.Apply", "err")) =>
    /\ result = "ChangesetApplyFailed"
    /\ rrsets = rrsetsBefore
    /\ changeset.additions # <<>>
    /\ \A a \in Range(changeset.additions) : \A r \in Range(rrsets[zone]) :
         ProviderKey(r) # ProviderKey(a)
    /\ Count("changeset.Apply") = 1

\* C11 witness: Apply failed on a zone that already held records.
C11_Witness ==
  /\ op = "precreateDNS" /\ pc = "done"
  /\ Called("changeset.Apply", "err")
  /\ result = "ChangesetApplyFailed"
  /\ rrsets[zone] # <<>>

\* the (etcd cluster, member) positions of the cluster spec, and where the
\* hostname of each is expected in the derived list
EtcdPairs ==
  UNION {{<<i, j>> : j \in DOMAIN cluster.EtcdClusters[i].Members} :
           i \in DOMAIN cluster.EtcdClusters}

MasterCount ==
  (IF cluster.MasterPublicName # "" THEN 1 ELSE 0)
  + (IF cluster.MasterInternalName # "" THEN 1 ELSE 0)

RECURSIVE MembersBefore(_)
MembersBefore(i) ==
  IF i = 1 THEN 0
  ELSE MembersBefore(i - 1) + Len(cluster.EtcdClusters[i - 1].Members)

EtcdIndex(p) == MasterCount + MembersBefore(p[1]) + p[2]

EtcdClusterName(p) == cluster.EtcdClusters[p[1]].Name

EtcdMemberName(p) == cluster.EtcdClusters[p[1]].Members[p[2]].Name

\* C12: the derived list holds, after the master names, one hostname per
\* etcd member in order: "etcd-" cluster "-" member ".internal." object name,
\* and "etcd-" member ".internal." object name for the cluster named main.
C12_EtcdNaming ==
  (op = "precreateDNS" /\ flag) =>
    /\ Len(dnsHostnames) = MasterCount + Cardinality(EtcdPairs)
    /\ \A p \in EtcdPairs :
         /\ dnsHostnames[EtcdIndex(p)] =
              IF EtcdClusterName(p) = "main"
              THEN "etcd-" \o EtcdMemberName(p) \o ".internal." \o cluster.Name
              ELSE "etcd-" \o EtcdClusterName(p) \o "-" \o EtcdMemberName(p)
                     \o ".internal." \o cluster.Name
         /\ (EtcdClusterName(p) = "main" /\ EtcdMemberName(p) = "a"
               /\ cluster.Name = "foo") =>
              dnsHostnames[EtcdIndex(p)] = "etcd-a.internal.foo"
         /\ (EtcdClusterName(p) = "events" /\ EtcdMemberName(p) = "b"
               /\ cluster.Name = "foo") =>
              dnsHostnames[EtcdIndex(p)] = "etcd-events-b.internal.foo"

\* C12 witness: a cluster with member a of main and member b of events had
\* its hostnames derived.
C12_Witness ==
  /\ op = "precreateDNS" /\ flag
  /\ \E p, q \in EtcdPairs :
       /\ EtcdClusterName(p) = "main" /\ EtcdMemberName(p) = "a"
       /\ EtcdClusterName(q) = "events" /\ EtcdMemberName(q) = "b"
       /\ dnsHostnames[EtcdIndex(p)] = "etcd-a.internal.foo"
       /\ dnsHostnames[EtcdIndex(q)] = "etcd-events-b.internal.foo"

\* the desired hostnames, one trailing dot stripped, for which the listing
\* has no record of type A with that name up to one trailing dot
MissingNames ==
  {TrimSuffix(dnsHostnames[k], ".") : k \in
     {k \in DOMAIN dnsHostnames :
        ~ \E r \in Range(records) :
            /\ r.type = "A"
            /\ TrimSuffix(r.name, ".") = TrimSuffix(dnsHostnames[k], ".")}}

\* C13: once the diff ran, the names queued are exactly the desired
\* hostnames without a listed A record, and every queued record is an A
\* record with data [203.0.113.123] and TTL 10.
C13_DiffResult ==
  (op = "precreateDNS" /\ Called("rrs.StartChangeset", "ok")) =>
    /\ {a.name : a \in Range(changeset.additions)} = MissingNames
    /\ Range(created) = MissingNames
    /\ \A a \in Range(changeset.additions) :
         a.type = "A" /\ a.rrdatas = <<"203.0.113.123">> /\ a.ttl = 10

\* C13 witness: a hostname was queued although the listing held a record of
\* another type with its name, written with a trailing dot.
C13_Witness ==
  /\ op = "precreateDNS" /\ Called("rrs.StartChangeset", "ok")
  /\ \E r \in Range(records) : \E a \in Range(changeset.additions) :
       /\ r.type # "A"
       /\ r.name = a.name \o "."

\* C14: in precreateDNS a failure to resolve the zone or to list its records
\* is returned as it is, with no changeset built or applied and every zone
\* left as it was; rrs.List is only called once the zone list designated
\* exactly one zone.
C14_ErrorOrdering ==
  op = "precreateDNS" =>
    /\ Called("cloud.DNS", "err") => result = "ProviderUnavailable"
    /\ Called("dns.Zones", "notok") => result = "ZonesUnavailable"
    /\ Called("zonesProvider.List", "err") => result = "ZoneLookupFailed"
    /\ (Called("zonesProvider.List", "ok") /\ Cardinality(MatchSet) = 0) =>
         result = "ZoneNotFound"
    /\ (Called("zonesProvider.List", "ok") /\ Cardinality(MatchSet) > 1) =>
         result = "AmbiguousZone"
    /\ Called("zone.ResourceRecordSets", "notok") =>
         result = "RecordSetsUnavailable"
    /\ Called("rrs.List", "err") => result = "RecordListFailed"
    /\ result \in {"ProviderUnavailable", "ZonesUnavailable",
                   "ZoneLookupFailed", "ZoneNotFound", "AmbiguousZone",
                   "RecordSetsUnavailable", "RecordListFailed"} =>
         /\ Count("rrs.StartChangeset") = 0
         /\ Count("changeset.Apply") = 0
         /\ changeset = EmptyChangeset
         /\ rrsets = rrsetsBefore
    /\ Count("rrs.List") > 0 =>
         /\ Called("zonesProvider.List", "ok")
         /\ MatchSet = {zone}

\* C14 witness: the record listing of the one resolved zone failed.
C14_Witness ==
  /\ op = "precreateDNS" /\ pc = "done"
  /\ MatchSet = {zone}
  /\ Called("rrs.List", "err")
  /\ result = "RecordListFailed"

\* C15: with the flag on and no master public name, no master internal name
\* and no etcd member, precreateDNS has returned nil without any call.
C15_EmptyDesiredSet ==
  (op = "precreateDNS" /\ flag /\ cluster.MasterPublicName = ""
     /\ cluster.MasterInternalName = "" /\ EtcdPairs = {}) =>
    /\ pc = "done" /\ result = "ok"
    /\ calls = <<>>
    /\ dnsHostnames = <<>>
    /\ rrsets = rrsetsBefore

\* C15 witness: nil was returned for an etcd cluster without members although
\* the configured zone is missing or ambiguous.
C15_Witness ==
  /\ op = "precreateDNS" /\ flag /\ pc = "done" /\ result = "ok"
  /\ cluster.MasterPublicName = "" /\ cluster.MasterInternalName = ""
  /\ cluster.EtcdClusters # <<>> /\ EtcdPairs = {}
  /\ Cardinality(MatchSet) # 1

\* C16: a zone whose ID is the target and whose name is the target up to one
\* trailing dot is returned when no other zone matches; a target that is the
\* ID of one zone and the name of another zone gives the ambiguous-zone error.
C16_ZonesNotReasons ==
  Called("zonesProvider.List", "ok") =>
    /\ \A i \in DOMAIN zones :
         (/\ zones[i].id = cluster.DNSZone
          /\ TrimSuffix(zones[i].name, ".") = TrimSuffix(cluster.DNSZone, ".")
          /\ MatchSet = {i}) =>
           (zone = i /\ result # "AmbiguousZone")
    /\ \A i, j \in DOMAIN zones :
         (/\ i # j
          /\ zones[i].id = cluster.DNSZone
          /\ TrimSuffix(zones[j].name, ".") = TrimSuffix(cluster.DNSZone, ".")) =>
           (zone = 0 /\ result = "AmbiguousZone")

\* C16 witness: the zone returned matches the target by its ID and by its
\* name.
C16_Witness ==
  /\ Called("zonesProvider.List", "ok")
  /\ zone # 0
  /\ zones[zone].id = cluster.DNSZone
  /\ TrimSuffix(zones[zone].name, ".") = TrimSuffix(cluster.DNSZone, ".")

\* C17: after precreateDNS returned nil with the flag on, every desired
\* hostname has, up to one trailing dot, a record of type A with its name in
\* the resolved zone.
C17_Convergence ==
  (op = "precreateDNS" /\ flag /\ pc = "done" /\ result = "ok") =>
    \A k \in DOMAIN dnsHostnames :
      /\ zone # 0
      /\ \E r \in Range(rrsets[zone]) :
           /\ r.type = "A"
           /\ TrimSuffix(r.name, ".") = TrimSuffix(dnsHostnames[k], ".")

\* C17 witness: a successful run left one hostname on a record without data
\* that was there before and created a placeholder record for another.
C17_Witness ==
  /\ op = "precreateDNS" /\ flag /\ pc = "done" /\ result = "ok"
  /\ zone # 0
  /\ \E r \in Range(rrsetsBefore[zone]) : \E k \in DOMAIN dnsHostnames :
       /\ r.type = "A" /\ r.rrdatas = <<>>
       /\ TrimSuffix(r.name, ".") = TrimSuffix(dnsHostnames[k], ".")
  /\ \E r \in Range(rrsets[zone]) :
       /\ r \notin Range(rrsetsBefore[zone])
       /\ r.rrdatas = <<PlaceholderIP>>

HasHyphen(s) == \E i \in 1..Len(s) : SubSeq(s, i, i) = "-"

NoHyphenInEtcdNames ==
  \A i \in DOMAIN cluster.EtcdClusters :
    /\ ~HasHyphen(cluster.EtcdClusters[i].Name)
    /\ \A j \in DOMAIN cluster.EtcdClusters[i].Members :
         ~HasHyphen(cluster.EtcdClusters[i].Members[j].Name)

\* C18 as stated: two distinct (etcd cluster name, member name) pairs of the
\* cluster spec always get distinct hostnames.
C18_EtcdInjective ==
  (op = "precreateDNS" /\ flag) =>
    \A p, q \in EtcdPairs :
      <<EtcdClusterName(p), EtcdMemberName(p)>>
          # <<EtcdClusterName(q), EtcdMemberName(q)>> =>
        dnsHostnames[EtcdIndex(p)] # dnsHostnames[EtcdIndex(q)]

\* C18 amended: when no etcd cluster name and no member name contains "-",
\* two distinct (etcd cluster name, member name) pairs get distinct
\* hostnames, also when one of the clusters is named main.
C18_EtcdInjectiveNoHyphen ==
  (op = "precreateDNS" /\ flag /\ NoHyphenInEtcdNames) =>
    \A p, q \in EtcdPairs :
      <<EtcdClusterName(p), EtcdMemberName(p)>>
          # <<EtcdClusterName(q), EtcdMemberName(q)>> =>
        dnsHostnames[EtcdIndex(p)] # dnsHostnames[EtcdIndex(q)]

\* C18 witness: the cluster named main and another cluster have a member of
\* the same name, and the two hostnames differ.
C18_Witness ==
  /\ op = "precreateDNS" /\ flag /\ NoHyphenInEtcdNames
  /\ \E p, q \in EtcdPairs :
       /\ EtcdClusterName(p) = "main" /\ EtcdClusterName(q) # "main"
       /\ EtcdMemberName(p) = EtcdMemberName(q)
       /\ dnsHostnames[EtcdIndex(p)] # dnsHostnames[EtcdIndex(q)]

====
